---- MODULE Spec2Model ----
(***************************************************************************)
(* Model of scripts/safari-post-convert.ts: the Safari Xcode project       *)
(* post-processing script that writes two entitlements files and patches   *)
(* project.pbxproj.                                                        *)
(*                                                                         *)
(* Text is modelled as a sequence of tokens.  A token is a TLA+ string     *)
(* holding the exact characters it stands for; the text of a file is the   *)
(* concatenation of its tokens.  The words the script's patterns share     *)
(* ("BewlyCat", " Extension", ".entitlements", "/* ", " */", white space)  *)
(* are tokens of their own, so that String.includes and the regular        *)
(* expressions are decided by searching the sequence, as the code searches *)
(* the characters.                                                         *)
(***************************************************************************)
EXTENDS Integers, Sequences, FiniteSets, TLC

\* ---------------------------------------------------------------- bounds
\* Largest number of parts a descriptor of PatchSpec is assembled from.
MaxParts == 2
\* Largest number of parts a descriptor of Spec is assembled from.
ProcParts == 1
\* Number of successive updatePbxproj runs on one descriptor (PatchSpec).
MaxRuns == 2
\* Number of distinct outcomes of Math.floor(Math.random() * 16) considered.
MaxRand == 2

\* ------------------------------------------------------ program constants
\* generateUUID: the length of the identifier (the loop bound, i < 24).
UUID_LENGTH == 24

\* generateUUID: const chars = '0123456789ABCDEF'
chars == <<"0", "1", "2", "3", "4", "5", "6", "7", "8", "9", "A", "B", "C", "D", "E", "F">>

BUNDLE_IDENTIFIER == "com.hankun.BewlyCat"

APP_GROUP == "group." \o BUNDLE_IDENTIFIER

\* The two entitlements documents, token by token; ${APP_GROUP} is substituted.
APP_ENTITLEMENTS ==
  << "<?xml version=\"1.0\" encoding=\"UTF-8\"?>\n<!DOCTYPE plist PUBLIC \"-//Apple//DTD PLIST 1.0//EN\" \"http://www.apple.com/DTDs/PropertyList-1.0.dtd\">\n<plist version=\"1.0\">\n<dict>\n",
     "    <key>com.apple.security.app-sandbox</key>\n    <true/>\n",
     "    <key>com.apple.security.network.client</key>\n    <true/>\n",
     "    <key>com.apple.security.application-groups</key>\n    <array>\n",
     "        <string>", APP_GROUP, "</string>\n",
     "    </array>\n</dict>\n</plist>\n" >>

\* The extension document with the ${APP_GROUP} line left out.
EXT_ENTITLEMENTS_NoGroup ==
  << "<?xml version=\"1.0\" encoding=\"UTF-8\"?>\n<!DOCTYPE plist PUBLIC \"-//Apple//DTD PLIST 1.0//EN\" \"http://www.apple.com/DTDs/PropertyList-1.0.dtd\">\n<plist version=\"1.0\">\n<dict>\n",
     "    <key>com.apple.security.app-sandbox</key>\n    <true/>\n",
     "    <key>com.apple.security.network.client</key>\n    <true/>\n",
     "    <key>com.apple.security.application-groups</key>\n    <array>\n",
     "    </array>\n</dict>\n</plist>\n" >>

EXT_ENTITLEMENTS ==
  << "<?xml version=\"1.0\" encoding=\"UTF-8\"?>\n<!DOCTYPE plist PUBLIC \"-//Apple//DTD PLIST 1.0//EN\" \"http://www.apple.com/DTDs/PropertyList-1.0.dtd\">\n<plist version=\"1.0\">\n<dict>\n",
     "    <key>com.apple.security.app-sandbox</key>\n    <true/>\n",
     "    <key>com.apple.security.network.client</key>\n    <true/>\n",
     "    <key>com.apple.security.application-groups</key>\n    <array>\n",
     "        <string>", APP_GROUP, "</string>\n",
     "    </array>\n</dict>\n</plist>\n" >>

\* ------------------------------------------------------------ text helpers
\* The characters the regular-expression class \s matches, as tokens.
WhiteSpace == {" ", "\t", "\n"}

\* String.prototype.includes: sub occurs in s as a contiguous run.
Includes(s, sub) ==
  \E i \in 1..(Len(s) - Len(sub) + 1) :
    s[i] = sub[1] /\ SubSeq(s, i, i + Len(sub) - 1) = sub

\* The positions at which sub occurs in s.
Occurrences(s, sub) ==
  {i \in 1..(Len(s) - Len(sub) + 1) : s[i] = sub[1] /\ SubSeq(s, i, i + Len(sub) - 1) = sub}

\* First index >= i of s whose token is not in t (Len(s) + 1 if none).
RECURSIVE SkipRun(_, _, _)
SkipRun(s, i, t) ==
  IF i <= Len(s) /\ s[i] \in t THEN SkipRun(s, i + 1, t) ELSE i

\* A pattern is a sequence of elements [k, t, g]: k = "one" matches one token
\* of t, "plus" one or more (\s+), "star" zero or more (\s*); g is the number
\* of the capture group the element belongs to.  MatchFrom gives the index
\* after the match of pat[j..] at s[i..], or 0 when there is none.  The
\* quantified class is always followed by a token outside it, so the greedy
\* match is the only one.
RECURSIVE MatchFrom(_, _, _, _)
MatchFrom(s, i, pat, j) ==
  IF j > Len(pat) THEN i
  ELSE LET e == pat[j] IN
       CASE e.k = "one" ->
              IF i <= Len(s) /\ s[i] \in e.t THEN MatchFrom(s, i + 1, pat, j + 1) ELSE 0
         [] e.k = "plus" ->
              IF i <= Len(s) /\ s[i] \in e.t
              THEN MatchFrom(s, SkipRun(s, i, e.t), pat, j + 1) ELSE 0
         [] OTHER -> MatchFrom(s, SkipRun(s, i, e.t), pat, j + 1)

\* The text captured by group n in the match of pat at s[i..].
RECURSIVE Capture(_, _, _, _, _)
Capture(s, i, pat, j, n) ==
  IF j > Len(pat) THEN << >>
  ELSE LET e == pat[j]
           nxt == IF e.k = "one" THEN i + 1 ELSE SkipRun(s, i, e.t)
       IN (IF e.g = n THEN SubSeq(s, i, nxt - 1) ELSE << >>)
            \o Capture(s, nxt, pat, j + 1, n)

\* The replacement string: items [g, lit]; g > 0 stands for $g, g = 0 for
\* the literal text lit.
RECURSIVE Expand(_, _, _, _, _)
Expand(tpl, k, s, i, pat) ==
  IF k > Len(tpl) THEN << >>
  ELSE (IF tpl[k].g = 0 THEN tpl[k].lit ELSE Capture(s, i, pat, 1, tpl[k].g))
         \o Expand(tpl, k + 1, s, i, pat)

\* The positions >= i of s at which pat matches.  Every pattern of the script
\* begins with literal text, so a match begins at a token of pat[1].t.
MatchesFrom(s, i, pat) ==
  {j \in i..Len(s) : s[j] \in pat[1].t /\ MatchFrom(s, j, pat, 1) # 0}

\* String.prototype.replace from index i on: the search goes left to right;
\* the leftmost match is replaced by the expanded template and, with the g
\* flag (all = TRUE), the search resumes after that match.
RECURSIVE ReplaceFrom(_, _, _, _, _)
ReplaceFrom(s, i, pat, tpl, all) ==
  LET ms == MatchesFrom(s, i, pat) IN
  IF ms = {} THEN SubSeq(s, i, Len(s))
  ELSE LET p == CHOOSE j \in ms : \A m \in ms : j <= m
           e == MatchFrom(s, p, pat, 1)
       IN SubSeq(s, i, p - 1) \o Expand(tpl, 1, s, p, pat)
            \o (IF all THEN ReplaceFrom(s, e, pat, tpl, all) ELSE SubSeq(s, e, Len(s)))

Replace(s, pat, tpl, all) == ReplaceFrom(s, 1, pat, tpl, all)

Lit(toks, g) == [i \in 1..Len(toks) |-> [k |-> "one", t |-> {toks[i]}, g |-> g]]

Ref(g) == [g |-> g, lit |-> << >>]

Text(toks) == [g |-> 0, lit |-> toks]

\* ------------------------------------------------------------ generateUUID
\* rand[i] is Math.floor(Math.random() * 16) of the i-th iteration.
RECURSIVE generateUUIDLoop(_, _)
generateUUIDLoop(rand, i) ==
  IF i = 0 THEN "" ELSE generateUUIDLoop(rand, i - 1) \o chars[rand[i] + 1]

generateUUID(rand) == generateUUIDLoop(rand, UUID_LENGTH)

\* The draws of one call that the model considers.
RandomDraws == {[i \in 1..UUID_LENGTH |-> d] : d \in 0..(MaxRand - 1)}

\* ------------------------------------------------ updatePbxproj: the texts
Marker == <<"BewlyCat", ".entitlements">>

fileRefEndMarker == <<"/* End PBXFileReference section */">>

fileRefAddition(appEntFileRef, extEntFileRef) ==
  << "\t", "\t", appEntFileRef, " ", "/* ", "BewlyCat", ".entitlements", " */", " = {",
     "isa = PBXFileReference; lastKnownFileType = text.plist", ".entitlements",
     "; path = ", "BewlyCat", ".entitlements", "; sourceTree = \"<group>\"; };", "\n",
     "\t", "\t", extEntFileRef, " ", "/* ", "BewlyCat", " Extension", ".entitlements", " */", " = {",
     "isa = PBXFileReference; lastKnownFileType = text.plist", ".entitlements",
     "; path = \"", "BewlyCat", " Extension", ".entitlements", "\"; sourceTree = \"<group>\"; };", "\n" >>
  \o fileRefEndMarker

AppBundleId == <<"PRODUCT_BUNDLE_IDENTIFIER = com.hankun.", "BewlyCat", ";">>

ExtBundleId == <<"PRODUCT_BUNDLE_IDENTIFIER = com.hankun.", "BewlyCat", ".Extension", ";">>

AppFollowers == {"PRODUCT_NAME", "REGISTER_APP_GROUPS"}

ExtFollowers == {"PRODUCT_NAME", "SKIP_INSTALL"}

\* /(PRODUCT_BUNDLE_IDENTIFIER = com\.hankun\.BewlyCat;)(\s+)(PRODUCT_NAME|REGISTER_APP_GROUPS)/g
AppBuildPattern ==
  Lit(AppBundleId, 1)
    \o << [k |-> "plus", t |-> WhiteSpace, g |-> 2], [k |-> "one", t |-> AppFollowers, g |-> 3] >>

\* /(PRODUCT_BUNDLE_IDENTIFIER = com\.hankun\.BewlyCat\.Extension;)(\s+)(PRODUCT_NAME|SKIP_INSTALL)/g
ExtBuildPattern ==
  Lit(ExtBundleId, 1)
    \o << [k |-> "plus", t |-> WhiteSpace, g |-> 2], [k |-> "one", t |-> ExtFollowers, g |-> 3] >>

AppCodeSign == <<"CODE_SIGN_ENTITLEMENTS = ", "BewlyCat", "/", "BewlyCat", ".entitlements", ";">>

ExtCodeSign ==
  <<"CODE_SIGN_ENTITLEMENTS = \"", "BewlyCat", " Extension", "/", "BewlyCat", " Extension",
    ".entitlements", "\";">>

\* `$1$2CODE_SIGN_ENTITLEMENTS = BewlyCat/BewlyCat.entitlements;$2$3`
AppBuildTemplate == << Ref(1), Ref(2), Text(AppCodeSign), Ref(2), Ref(3) >>

\* The extension replacement without its $3: the following setting is lost.
ExtBuildTemplateNoFollower == << Ref(1), Ref(2), Text(ExtCodeSign), Ref(2) >>

\* `$1$2CODE_SIGN_ENTITLEMENTS = "BewlyCat Extension/BewlyCat Extension.entitlements";$2$3`
ExtBuildTemplate == << Ref(1), Ref(2), Text(ExtCodeSign), Ref(2), Ref(3) >>

GroupTail ==
  << [k |-> "star", t |-> WhiteSpace, g |-> 1], [k |-> "one", t |-> {"isa = PBXGroup;"}, g |-> 1],
     [k |-> "star", t |-> WhiteSpace, g |-> 1], [k |-> "one", t |-> {"children = ("}, g |-> 1] >>

\* /(\/\* BewlyCat \*\/ = \{\s*isa = PBXGroup;\s*children = \()/
appGroupPattern == Lit(<<"/* ", "BewlyCat", " */", " = {">>, 1) \o GroupTail

\* /(\/\* BewlyCat Extension \*\/ = \{\s*isa = PBXGroup;\s*children = \()/
extGroupPattern == Lit(<<"/* ", "BewlyCat", " Extension", " */", " = {">>, 1) \o GroupTail

AppChild(appEntFileRef) ==
  <<"\n", "\t", "\t", "\t", "\t", appEntFileRef, " ", "/* ", "BewlyCat", ".entitlements", " */", ",">>

ExtChild(extEntFileRef) ==
  <<"\n", "\t", "\t", "\t", "\t", extEntFileRef, " ", "/* ", "BewlyCat", " Extension",
    ".entitlements", " */", ",">>

\* `$1\n\t\t\t\t${appEntFileRef} /* BewlyCat.entitlements */,`
AppGroupTemplate(appEntFileRef) == << Ref(1), Text(AppChild(appEntFileRef)) >>

ExtGroupTemplate(extEntFileRef) == << Ref(1), Text(ExtChild(extEntFileRef)) >>

\* ---------------------------------------- updatePbxproj: the substitutions
\* 1. file references, before the end-of-section marker (a string pattern:
\*    the first occurrence only).
AddFileRefs(content, a, b) ==
  Replace(content, Lit(fileRefEndMarker, 1), << Text(fileRefAddition(a, b)) >>, FALSE)

\* The main-app substitution without the g flag: the first occurrence only.
AddAppBuildSettingFirst(content) == Replace(content, AppBuildPattern, AppBuildTemplate, FALSE)

\* 2. CODE_SIGN_ENTITLEMENTS, main app then extension (every occurrence).
AddAppBuildSetting(content) == Replace(content, AppBuildPattern, AppBuildTemplate, TRUE)

AddExtBuildSetting(content) == Replace(content, ExtBuildPattern, ExtBuildTemplate, TRUE)

\* The main-app group substitution with the g flag: every matching header.
AddAppGroupChildAll(content, a) == Replace(content, appGroupPattern, AppGroupTemplate(a), TRUE)

\* 3. and 4. the group children (no g flag: the first match only).
AddAppGroupChild(content, a) == Replace(content, appGroupPattern, AppGroupTemplate(a), FALSE)

AddExtGroupChild(content, b) == Replace(content, extGroupPattern, ExtGroupTemplate(b), FALSE)

\* The guard looking for the extension file's name instead of the marker.
AlreadyConfiguredExtName(content) ==
  Includes(content, <<"BewlyCat", " Extension", ".entitlements">>)

\* The guard of updatePbxproj: content.includes('BewlyCat.entitlements').
AlreadyConfigured(content) == Includes(content, Marker)

\* The content updatePbxproj writes for an unpatched descriptor.
PatchContent(content, a, b) ==
  AddExtGroupChild(
    AddAppGroupChild(
      AddExtBuildSetting(AddAppBuildSetting(AddFileRefs(content, a, b))), a), b)

\* ------------------------------------------------------------- file system
\* A file: whether the path exists, and its text.
File(data) == [exists |-> TRUE, data |-> data]

Absent == [exists |-> FALSE, data |-> << >>]

\* fs.writeFile opens the path with flag 'w' (create, truncate) and then
\* writes.  A call that throws has failed at the open, leaving the path as it
\* was, or after it, leaving the file empty or holding part of the data.
FailedWrite(old, data) ==
  {old, File(<< >>)} \cup {File(SubSeq(data, 1, n)) : n \in {Len(data) \div 2}}

\* ------------------------------------------------------------------ inputs
\* Pieces of project.pbxproj text a descriptor is assembled from.
AppContextName == AppBundleId \o <<"\n", "\t", "PRODUCT_NAME">>

AppContextRegister == AppBundleId \o <<" ", "REGISTER_APP_GROUPS">>

ExtContextName == ExtBundleId \o <<"\n", "\t", "PRODUCT_NAME">>

ExtContextSkip == ExtBundleId \o <<" ", "SKIP_INSTALL">>

\* Not a context of either pattern: the main-app identifier before SKIP_INSTALL.
AppBeforeSkip == AppBundleId \o <<" ", "SKIP_INSTALL">>

\* Not a context: no white space between the identifier and the setting.
ExtNoSpace == ExtBundleId \o <<"PRODUCT_NAME">>

AppGroupHeader ==
  <<"/* ", "BewlyCat", " */", " = {", "\n", "isa = PBXGroup;", "\n", "children = (">>

ExtGroupHeader ==
  <<"/* ", "BewlyCat", " Extension", " */", " = {", "isa = PBXGroup;", "children = (">>

Parts ==
  { fileRefEndMarker, AppContextName, AppContextRegister, ExtContextName, ExtContextSkip,
    AppBeforeSkip, ExtNoSpace, AppGroupHeader, ExtGroupHeader, Marker, <<"X">> }

\* A minimal descriptor with every anchor of the patch.
Skeleton ==
  AppGroupHeader \o <<"Y">> \o ExtGroupHeader \o fileRefEndMarker
    \o AppContextName \o <<";">> \o ExtContextName

RECURSIVE Flatten(_)
Flatten(ps) == IF ps = << >> THEN << >> ELSE Head(ps) \o Flatten(Tail(ps))

PartSeqs(n) == UNION {[1..k -> Parts] : k \in 0..n}

\* The descriptors of at most n parts, alone or around the skeleton.
Descriptors(n) ==
  {Flatten(ps) : ps \in PartSeqs(n)}
    \cup UNION {{Flatten(SubSeq(ps, 1, at)) \o Skeleton \o Flatten(SubSeq(ps, at + 1, Len(ps)))
                   : at \in 0..Len(ps)} : ps \in PartSeqs(n)}

\* An entitlements file left by something else, naming the group twice.
StaleEntitlements == <<"<string>", APP_GROUP, "</string>\n", "<string>", APP_GROUP, "</string>\n">>

\* ------------------------------------------------------------------- state
VARIABLES
  pc,             \* where main is: the next step to take
  pbx,            \* the file at PBXPROJ_PATH
  appEnt,         \* the file at APP_DIR/BewlyCat.entitlements
  extEnt,         \* the file at EXT_DIR/BewlyCat Extension.entitlements
  content,        \* updatePbxproj: let content
  appEntFileRef,  \* updatePbxproj: const appEntFileRef
  extEntFileRef,  \* updatePbxproj: const extEntFileRef
  exitCode,       \* the process exit status, -1 while running
  log,            \* the console messages, in order
  steps,          \* the file-system calls made, in order
  failed,         \* the file-system call that threw, "" if none
  pbx0,           \* the file at PBXPROJ_PATH when the current run began
  appEnt0,        \* the app entitlements file when the process began
  extEnt0,        \* the extension entitlements file when the process began
  runs            \* the number of updatePbxproj runs done (PatchSpec)

vars ==
  << pc, pbx, appEnt, extEnt, content, appEntFileRef, extEntFileRef, exitCode, log, steps,
     failed, pbx0, appEnt0, extEnt0, runs >>

\* ---------------------------------------------------------- main, by steps
Init ==
  /\ pc = "main"
  /\ pbx \in {Absent} \cup {File(d) : d \in Descriptors(ProcParts)}
  /\ appEnt \in {Absent, File(StaleEntitlements)}
  /\ extEnt \in {Absent, File(StaleEntitlements)}
  /\ content = << >>
  /\ appEntFileRef = ""
  /\ extEntFileRef = ""
  /\ exitCode = -1
  /\ log = << >>
  /\ steps = << >>
  /\ failed = ""
  /\ pbx0 = pbx
  /\ appEnt0 = appEnt
  /\ extEnt0 = extEnt
  /\ runs = 0

\* The existence check without process.exit(1): main carries on.
CheckExistsContinues ==
  /\ pc = "main"
  /\ steps' = Append(steps, "pathExists")
  /\ log' = IF pbx.exists THEN Append(log, "start")
            ELSE log \o <<"start", "not found", "run convert-safari first">>
  /\ pc' = "writeApp"
  /\ UNCHANGED << pbx, appEnt, extEnt, content, appEntFileRef, extEntFileRef, exitCode, failed,
                  pbx0, appEnt0, extEnt0, runs >>

\* main: the existence check, and the exit when the project is missing.
CheckExists ==
  /\ pc = "main"
  /\ steps' = Append(steps, "pathExists")
  /\ IF ~pbx.exists
     THEN /\ log' = log \o <<"start", "not found", "run convert-safari first">>
          /\ exitCode' = 1
          /\ pc' = "exited"
     ELSE /\ log' = Append(log, "start")
          /\ exitCode' = exitCode
          /\ pc' = "writeApp"
  /\ UNCHANGED << pbx, appEnt, extEnt, content, appEntFileRef, extEntFileRef, failed, pbx0, appEnt0, extEnt0, runs >>

\* createEntitlementsFiles: await fs.writeFile(appEntPath, APP_ENTITLEMENTS).
WriteAppEntitlements ==
  /\ pc = "writeApp"
  /\ steps' = Append(steps, "writeApp")
  /\ \/ /\ appEnt' = File(APP_ENTITLEMENTS)
        /\ log' = Append(log, "created app")
        /\ pc' = "writeExt"
        /\ failed' = failed
     \/ /\ appEnt' \in FailedWrite(appEnt, APP_ENTITLEMENTS)
        /\ log' = log
        /\ pc' = "catch"
        /\ failed' = "writeApp"
  /\ UNCHANGED << pbx, extEnt, content, appEntFileRef, extEntFileRef, exitCode, pbx0, appEnt0, extEnt0, runs >>

\* createEntitlementsFiles: await fs.writeFile(extEntPath, EXT_ENTITLEMENTS).
WriteExtEntitlements ==
  /\ pc = "writeExt"
  /\ steps' = Append(steps, "writeExt")
  /\ \/ /\ extEnt' = File(EXT_ENTITLEMENTS)
        /\ log' = Append(log, "created ext")
        /\ pc' = "read"
        /\ failed' = failed
     \/ /\ extEnt' \in FailedWrite(extEnt, EXT_ENTITLEMENTS)
        /\ log' = log
        /\ pc' = "catch"
        /\ failed' = "writeExt"
  /\ UNCHANGED << pbx, appEnt, content, appEntFileRef, extEntFileRef, exitCode, pbx0, appEnt0, extEnt0, runs >>

\* updatePbxproj: the read and the already-configured guard.
ReadPbxproj ==
  /\ pc = "read"
  /\ steps' = Append(steps, "read")
  /\ \/ /\ pbx.exists
        /\ content' = pbx.data
        /\ failed' = failed
        /\ IF AlreadyConfigured(pbx.data)
           THEN /\ log' = Append(log, "already configured")
                /\ pc' = "report"
           ELSE /\ log' = log
                /\ pc' = "generate"
     \/ /\ content' = content
        /\ failed' = "read"
        /\ log' = log
        /\ pc' = "catch"
  /\ UNCHANGED << pbx, appEnt, extEnt, appEntFileRef, extEntFileRef, exitCode, pbx0, appEnt0, extEnt0, runs >>

\* updatePbxproj: the two generateUUID calls.
GenerateIds ==
  /\ pc = "generate"
  /\ \E r1 \in RandomDraws, r2 \in RandomDraws :
       /\ appEntFileRef' = generateUUID(r1)
       /\ extEntFileRef' = generateUUID(r2)
  /\ pc' = "write"
  /\ UNCHANGED << pbx, appEnt, extEnt, content, exitCode, log, steps, failed, pbx0, appEnt0, extEnt0, runs >>

\* updatePbxproj: the substitutions and the write back.
PatchAndWrite ==
  /\ pc = "write"
  /\ content' = PatchContent(content, appEntFileRef, extEntFileRef)
  /\ steps' = Append(steps, "write")
  /\ \/ /\ pbx' = File(content')
        /\ log' = Append(log, "updated")
        /\ pc' = "report"
        /\ failed' = failed
     \/ /\ pbx' \in FailedWrite(pbx, content')
        /\ log' = log
        /\ pc' = "catch"
        /\ failed' = "write"
  /\ UNCHANGED << appEnt, extEnt, appEntFileRef, extEntFileRef, exitCode, pbx0, appEnt0, extEnt0, runs >>

\* main: the success report; the process then ends with status 0.
ReportSuccess ==
  /\ pc = "report"
  /\ log' = log \o <<"completed", "next steps">>
  /\ exitCode' = 0
  /\ pc' = "exited"
  /\ UNCHANGED << pbx, appEnt, extEnt, content, appEntFileRef, extEntFileRef, steps, failed,
                  pbx0, appEnt0, extEnt0, runs >>

\* The catch block without process.exit(1): the process ends with status 0.
CatchErrorNoExit ==
  /\ pc = "catch"
  /\ log' = Append(log, "error")
  /\ exitCode' = 0
  /\ pc' = "exited"
  /\ UNCHANGED << pbx, appEnt, extEnt, content, appEntFileRef, extEntFileRef, steps, failed,
                  pbx0, appEnt0, extEnt0, runs >>

\* The catch block undoing createEntitlementsFiles before it exits.
CatchErrorRollback ==
  /\ pc = "catch"
  /\ log' = Append(log, "error")
  /\ exitCode' = 1
  /\ pc' = "exited"
  /\ appEnt' = appEnt0
  /\ extEnt' = extEnt0
  /\ UNCHANGED << pbx, content, appEntFileRef, extEntFileRef, steps, failed, pbx0, appEnt0,
                  extEnt0, runs >>

\* main: catch (error) { console.error(...); process.exit(1) }
CatchError ==
  /\ pc = "catch"
  /\ log' = Append(log, "error")
  /\ exitCode' = 1
  /\ pc' = "exited"
  /\ UNCHANGED << pbx, appEnt, extEnt, content, appEntFileRef, extEntFileRef, steps, failed,
                  pbx0, appEnt0, extEnt0, runs >>

Next ==
  \/ CheckExists
  \/ WriteAppEntitlements
  \/ WriteExtEntitlements
  \/ ReadPbxproj
  \/ GenerateIds
  \/ PatchAndWrite
  \/ ReportSuccess
  \/ CatchError

Spec == Init /\ [][Next]_vars

\* ------------------------------------------------------ properties of main
\* The number of times the token sequence sub occurs in s.
Count(s, sub) == Cardinality(Occurrences(s, sub))

\* s is an initial segment of t.
IsPrefix(s, t) == Len(s) <= Len(t) /\ SubSeq(t, 1, Len(s)) = s

\* The file-system calls of a run, in the order of the code.
StepOrder == <<"pathExists", "writeApp", "writeExt", "read", "write">>

\* C1: when the descriptor is absent at the start of main, the process ends
\* with exit status 1 and no file is created or modified: the entitlements
\* files are as they were and the descriptor path stays absent.
C1_MissingDescriptor ==
  ~pbx0.exists =>
    /\ pbx = pbx0
    /\ appEnt = appEnt0
    /\ extEnt = extEnt0
    /\ steps \in {<< >>, <<"pathExists">>}
    /\ pc \in {"main", "exited"}
    /\ pc = "exited" => exitCode = 1

C1_Witness == ~pbx0.exists /\ pc = "exited" /\ exitCode = 1 /\ ~appEnt.exists

\* C3: after a run that ends with exit status 0 both entitlements files
\* exist and each names the App Group identifier exactly once, whatever the
\* files held before.
C3_EntitlementsAfterSuccess ==
  exitCode = 0 =>
    /\ appEnt.exists /\ Count(appEnt.data, <<APP_GROUP>>) = 1
    /\ extEnt.exists /\ Count(extEnt.data, <<APP_GROUP>>) = 1

C3_Witness ==
  /\ exitCode = 0
  /\ ~appEnt0.exists
  /\ extEnt0.exists /\ Count(extEnt0.data, <<APP_GROUP>>) = 2

\* C5: the exit status is 0 exactly when the descriptor exists and no
\* file-system call of createEntitlementsFiles or updatePbxproj throws; a
\* throw is caught, logged, and ends the process with status 1 without the
\* success report.
C5_ExitStatus ==
  pc = "exited" =>
    /\ exitCode \in {0, 1}
    /\ (exitCode = 0) <=> (pbx0.exists /\ failed = "")
    /\ failed # "" =>
         /\ exitCode = 1
         /\ log[Len(log)] = "error"
         /\ \A i \in 1..Len(log) : log[i] # "completed"
    /\ exitCode = 0 => \E i \in 1..Len(log) : log[i] = "completed"

C5_Witness == pc = "exited" /\ failed = "writeExt" /\ exitCode = 1 /\ pbx0.exists

\* C7 as stated: whenever updatePbxproj patches the descriptor, the two
\* generated identifiers differ.
C7_DistinctIds == pc = "write" => appEntFileRef # extEntFileRef

\* C8 as stated: the file-system calls come in the order existence check,
\* app entitlements write, extension entitlements write, descriptor read,
\* descriptor write, and when the descriptor read or write throws the run
\* ends with both new entitlements files on disk and the descriptor unchanged.
C8_NoRollbackDescriptorUnchanged ==
  /\ IsPrefix(steps, StepOrder)
  /\ (pc = "exited" /\ failed \in {"read", "write"}) =>
       /\ appEnt = File(APP_ENTITLEMENTS)
       /\ extEnt = File(EXT_ENTITLEMENTS)
       /\ pbx = pbx0

\* C8 amended: the same order, and when the descriptor read or write throws
\* the run ends with both new entitlements files on disk; the descriptor is
\* unchanged after a failed read, and after a failed write it is unchanged
\* or holds an initial part of the patched text (nothing restores it).
C8_NoRollback ==
  /\ IsPrefix(steps, StepOrder)
  /\ (pc = "exited" /\ failed \in {"read", "write"}) =>
       /\ appEnt = File(APP_ENTITLEMENTS)
       /\ extEnt = File(EXT_ENTITLEMENTS)
       /\ failed = "read" => pbx = pbx0
       /\ failed = "write" => (pbx = pbx0 \/ (pbx.exists /\ IsPrefix(pbx.data, content)))

C8_Witness ==
  /\ pc = "exited"
  /\ failed = "write"
  /\ steps = StepOrder
  /\ appEnt0 # File(APP_ENTITLEMENTS)
  /\ appEnt = File(APP_ENTITLEMENTS)
  /\ pbx # pbx0

\* C9: when the descriptor read by updatePbxproj already holds the marker
\* 'BewlyCat.entitlements', the descriptor is never written: it keeps its
\* content, whatever else it holds.
C9_MarkerGuard ==
  (pbx0.exists /\ Includes(pbx0.data, Marker)) =>
    /\ pbx = pbx0
    /\ \A i \in 1..Len(steps) : steps[i] # "write"

C9_Witness ==
  /\ pc = "exited"
  /\ exitCode = 0
  /\ Includes(pbx0.data, Marker)
  /\ Includes(pbx0.data, fileRefEndMarker)
  /\ Includes(pbx0.data, ExtContextName)
  /\ log[Len(log) - 2] = "already configured"


\* ------------------------------------------- updatePbxproj, run after run
PatchInit ==
  /\ pc = "updatePbxproj"
  /\ pbx \in {File(d) : d \in Descriptors(MaxParts)}
  /\ appEnt = File(APP_ENTITLEMENTS)
  /\ extEnt = File(EXT_ENTITLEMENTS)
  /\ content = << >>
  /\ appEntFileRef = ""
  /\ extEntFileRef = ""
  /\ exitCode = -1
  /\ log = << >>
  /\ steps = << >>
  /\ failed = ""
  /\ pbx0 = pbx
  /\ appEnt0 = appEnt
  /\ extEnt0 = extEnt
  /\ runs = 0

\* One whole call of updatePbxproj in which no file-system call throws.
updatePbxproj ==
  /\ pc = "updatePbxproj"
  /\ runs < MaxRuns
  /\ runs' = runs + 1
  /\ pbx0' = pbx
  /\ IF AlreadyConfigured(pbx.data)
     THEN /\ content' = pbx.data
          /\ log' = Append(log, "already configured")
          /\ UNCHANGED << pbx, appEntFileRef, extEntFileRef >>
     ELSE /\ \E r1 \in RandomDraws, r2 \in RandomDraws :
               /\ appEntFileRef' = generateUUID(r1)
               /\ extEntFileRef' = generateUUID(r2)
          /\ content' = PatchContent(pbx.data, appEntFileRef', extEntFileRef')
          /\ pbx' = File(content')
          /\ log' = Append(log, "updated")
  /\ UNCHANGED << pc, appEnt, extEnt, exitCode, steps, failed, appEnt0, extEnt0 >>

PatchNext == updatePbxproj

PatchSpec == PatchInit /\ [][PatchNext]_vars

\* ---------------------------------------------- properties of updatePbxproj
\* sub stands in s at position i.
At(s, i, sub) ==
  /\ i >= 1
  /\ i + Len(sub) - 1 <= Len(s)
  /\ s[i] = sub[1]
  /\ SubSeq(s, i, i + Len(sub) - 1) = sub

\* The positions of s at which the bundle-identifier line id stands directly
\* before one of the settings in followers, white space alone in between.
Contexts(s, id, followers) ==
  {i \in 1..Len(s) :
     /\ At(s, i, id)
     /\ \E j \in (i + Len(id) + 1)..Len(s) :
          /\ s[j] \in followers
          /\ \A k \in (i + Len(id))..(j - 1) : s[k] \in WhiteSpace}

\* The build-setting line at position p of s stands directly after the
\* bundle-identifier line id, white space alone in between.
AfterIdLine(s, p, id) ==
  \E q \in 1..(p - Len(id) - 1) :
    /\ At(s, q, id)
    /\ \A k \in (q + Len(id))..(p - 1) : s[k] \in WhiteSpace

\* The run just done read a descriptor without the marker.
PatchedRun == runs >= 1 /\ ~Includes(pbx0.data, Marker)

\* C2 as stated: a second updatePbxproj run leaves the descriptor exactly as
\* the first run left it, for every initial content.
C2_Idempotent == runs = 2 => pbx = pbx0

\* C4: for a descriptor without the marker, the CODE_SIGN_ENTITLEMENTS lines
\* added for the main app (and for the extension) are as many as the
\* occurrences of its bundle-identifier context in the input, and every such
\* line stands directly after its bundle-identifier line.
C4_OneInsertionPerContext ==
  PatchedRun =>
    /\ Count(pbx.data, AppCodeSign) - Count(pbx0.data, AppCodeSign)
         = Cardinality(Contexts(pbx0.data, AppBundleId, AppFollowers))
    /\ Count(pbx.data, ExtCodeSign) - Count(pbx0.data, ExtCodeSign)
         = Cardinality(Contexts(pbx0.data, ExtBundleId, ExtFollowers))
    /\ \A p \in Occurrences(pbx.data, AppCodeSign) : AfterIdLine(pbx.data, p, AppBundleId)
    /\ \A p \in Occurrences(pbx.data, ExtCodeSign) : AfterIdLine(pbx.data, p, ExtBundleId)

C4_Witness ==
  /\ PatchedRun
  /\ Cardinality(Contexts(pbx0.data, AppBundleId, AppFollowers)) >= 2
  /\ Cardinality(Contexts(pbx0.data, ExtBundleId, ExtFollowers)) >= 1
  /\ Includes(pbx0.data, AppBeforeSkip)
  /\ Count(pbx.data, AppCodeSign) >= 2

\* s without the occurrences of sub.
RECURSIVE Without(_, _)
Without(s, sub) ==
  LET os == Occurrences(s, sub) IN
  IF os = {} THEN s
  ELSE LET p == CHOOSE i \in os : \A j \in os : i <= j
       IN SubSeq(s, 1, p - 1) \o Without(SubSeq(s, p + Len(sub), Len(s)), sub)

\* s without the occurrences of the build-setting line sub, each taken with
\* the white space that follows it.
RECURSIVE WithoutLine(_, _)
WithoutLine(s, sub) ==
  LET os == Occurrences(s, sub) IN
  IF os = {} THEN s
  ELSE LET p == CHOOSE i \in os : \A j \in os : i <= j
       IN SubSeq(s, 1, p - 1)
            \o WithoutLine(SubSeq(s, SkipRun(s, p + Len(sub), WhiteSpace), Len(s)), sub)

\* The two file-reference lines put before the end-of-section marker.
FileRefLines(a, b) ==
  SubSeq(fileRefAddition(a, b), 1, Len(fileRefAddition(a, b)) - Len(fileRefEndMarker))

\* The text left when everything updatePbxproj inserts is taken out again.
Stripped(s, a, b) ==
  Without(
    Without(
      WithoutLine(WithoutLine(Without(s, FileRefLines(a, b)), AppCodeSign), ExtCodeSign),
      AppChild(a)),
    ExtChild(b))

\* The descriptor holds every anchor of the patch.
HasAllAnchors(s) ==
  /\ Includes(s, fileRefEndMarker)
  /\ Contexts(s, AppBundleId, AppFollowers) # {}
  /\ Contexts(s, ExtBundleId, ExtFollowers) # {}
  /\ MatchesFrom(s, 1, appGroupPattern) # {}
  /\ MatchesFrom(s, 1, extGroupPattern) # {}

\* C6: for a descriptor without the marker that holds the end-of-section
\* marker, both bundle-identifier contexts and both group headers, the output
\* holds both generated references, both build-setting lines and both
\* group-children lines, and taking the inserted text out of the output gives
\* back the original content.
C6_InsertionsOnly ==
  (PatchedRun /\ HasAllAnchors(pbx0.data)) =>
    /\ Includes(pbx.data, FileRefLines(appEntFileRef, extEntFileRef) \o fileRefEndMarker)
    /\ Includes(pbx.data, AppCodeSign)
    /\ Includes(pbx.data, ExtCodeSign)
    /\ Includes(pbx.data, AppChild(appEntFileRef))
    /\ Includes(pbx.data, ExtChild(extEntFileRef))
    /\ Stripped(pbx.data, appEntFileRef, extEntFileRef) = pbx0.data
    /\ Len(pbx.data) > Len(pbx0.data)

C6_Witness ==
  /\ PatchedRun
  /\ HasAllAnchors(pbx0.data)
  /\ Includes(pbx0.data, <<"X">>)
  /\ Includes(pbx0.data, ExtContextSkip)
  /\ appEntFileRef # extEntFileRef

\* The group header matched at position h of s is directly followed by child.
FollowedBy(s, h, pat, child) ==
  At(s, MatchFrom(s, h, pat, 1), child)

\* The smallest element of a non-empty set of positions.
First(ps) == CHOOSE p \in ps : \A q \in ps : p <= q

\* C10: the group insertion is first-match only: of the headers matching the
\* app-group (or extension-group) pattern, the first gets the entitlements
\* child entry right after its children-list opening and every later one gets
\* none; the headers themselves are all kept.
C10_FirstGroupOnly ==
  PatchedRun =>
    LET ain == MatchesFrom(pbx0.data, 1, appGroupPattern)
        aout == MatchesFrom(pbx.data, 1, appGroupPattern)
        ein == MatchesFrom(pbx0.data, 1, extGroupPattern)
        eout == MatchesFrom(pbx.data, 1, extGroupPattern)
        a == AppChild(appEntFileRef)
        b == ExtChild(extEntFileRef)
    IN /\ Cardinality(aout) = Cardinality(ain)
       /\ Cardinality(eout) = Cardinality(ein)
       /\ Count(pbx.data, a) = (IF ain = {} THEN 0 ELSE 1)
       /\ \A h \in aout :
            FollowedBy(pbx.data, h, appGroupPattern, a) <=> h = First(aout)
       /\ Count(pbx.data, b) - Count(pbx0.data, b) = (IF ein = {} THEN 0 ELSE 1)
       /\ eout # {} => FollowedBy(pbx.data, First(eout), extGroupPattern, b)
       /\ \A h \in eout :
            h # First(eout) =>
              \A r \in RandomDraws :
                ~FollowedBy(pbx.data, h, extGroupPattern, ExtChild(generateUUID(r)))

C10_Witness ==
  /\ PatchedRun
  /\ Cardinality(MatchesFrom(pbx0.data, 1, appGroupPattern)) >= 2
  /\ Cardinality(MatchesFrom(pbx0.data, 1, extGroupPattern)) >= 2
  /\ Count(pbx.data, AppChild(appEntFileRef)) = 1

====
